---- MODULE Spec2Model ----
(***************************************************************************)
(* pg_intercept_server_logs: an emit_log_hook that re-emits the server     *)
(* log events of one watched severity to stderr or to a per-severity file. *)
(*                                                                         *)
(* Texts (C strings) are sequences of tokens; a token is a string standing *)
(* for one or more bytes.  The NULL pointer is the one-token sequence NULL. *)
(***************************************************************************)
EXTENDS Integers, Sequences, FiniteSets, TLC

(* ---- bounds of the model ---------------------------------------------- *)

\* longest text handed to append_with_tabs on its own
MaxTextLen == 4

\* number of top-level events the host raises in one run
MaxEvents == 2

(* ---- severity levels: the values of elog.h, at the places that name them - *)

DEBUG5 == 10
DEBUG4 == 11
DEBUG3 == 12
DEBUG2 == 13
DEBUG1 == 14
LOG == 15
LOG_SERVER_ONLY == 16
INFO == 17
NOTICE == 18
WARNING == 19
WARNING_CLIENT_ONLY == 20
ERROR == 21
FATAL == 22
PANIC == 23
LOG_LEVEL_NONE == 255
MAXPGPATH == 1024

NULL == <<"NULL">>

\* every elevel an ErrorData can carry
Elevels ==
    {DEBUG5, DEBUG4, DEBUG3, DEBUG2, DEBUG1, LOG, LOG_SERVER_ONLY, INFO,
     NOTICE, WARNING, WARNING_CLIENT_ONLY, ERROR, FATAL, PANIC}

\* values of log_level_options: what pg_intercept_server_logs.log_level can
\* be asked to take
log_level_options ==
    {DEBUG5, DEBUG4, DEBUG3, DEBUG2, DEBUG1, INFO, NOTICE, WARNING, ERROR,
     LOG, FATAL, PANIC, LOG_LEVEL_NONE}

\* values of log_min_messages: log_level_options without LOG_LEVEL_NONE
server_message_level_options == log_level_options \ {LOG_LEVEL_NONE}

(* ---- is_log_level_output ------------------------------------------------ *)

\* the plain numeric comparison
is_log_level_output_numeric(elevel, log_min_level) ==
    elevel >= log_min_level

\* the comparison without the branch for WARNING_CLIENT_ONLY
is_log_level_output_no_client_only(elevel, log_min_level) ==
    IF elevel = LOG \/ elevel = LOG_SERVER_ONLY
    THEN (log_min_level = LOG \/ log_min_level <= ERROR)
    ELSE IF log_min_level = LOG
    THEN elevel >= FATAL
    ELSE elevel >= log_min_level

is_log_level_output(elevel, log_min_level) ==
    IF elevel = LOG \/ elevel = LOG_SERVER_ONLY
    THEN (log_min_level = LOG \/ log_min_level <= ERROR)
    ELSE IF elevel = WARNING_CLIENT_ONLY
    THEN FALSE
    ELSE IF log_min_level = LOG
    THEN elevel >= FATAL
    ELSE elevel >= log_min_level

(* ---- check hooks of the two settings ------------------------------------ *)

\* a check that hands the two levels over in the wrong order
check_intercept_log_level_swapped(newval, min_messages) ==
    IF newval = LOG_LEVEL_NONE
    THEN TRUE
    ELSE is_log_level_output(min_messages, newval)

check_intercept_log_level(newval, min_messages) ==
    IF newval = LOG_LEVEL_NONE
    THEN TRUE
    ELSE is_log_level_output(newval, min_messages)

\* directory values the configuration can be asked to take
ExistingDir == <<"/logs">>
MissingDir == <<"/gone">>
LongDir == <<"/long">>
EmptyDir == <<>>
DirValues == {EmptyDir, ExistingDir, MissingDir, LongDir}

\* strlen of a directory value; LongDir stands for a path of MAXPGPATH bytes
strlen(dir) ==
    IF dir = LongDir THEN MAXPGPATH ELSE IF dir = EmptyDir THEN 0 ELSE 5

\* stat(dir) == 0 && S_ISDIR
stat_is_dir(dir) == dir = ExistingDir

check_intercept_log_directory(newval) ==
    IF newval = NULL \/ newval = EmptyDir
    THEN TRUE
    ELSE IF strlen(newval) + 64 + 2 >= MAXPGPATH
    THEN FALSE
    ELSE stat_is_dir(newval)

(* ---- the formatter ------------------------------------------------------ *)

intercept_log_severity(elevel) ==
    CASE elevel = DEBUG1 -> "DEBUG1"
      [] elevel = DEBUG2 -> "DEBUG2"
      [] elevel = DEBUG3 -> "DEBUG3"
      [] elevel = DEBUG4 -> "DEBUG4"
      [] elevel = DEBUG5 -> "DEBUG5"
      [] elevel = LOG \/ elevel = LOG_SERVER_ONLY -> "LOG"
      [] elevel = INFO -> "INFO"
      [] elevel = NOTICE -> "NOTICE"
      [] elevel = WARNING \/ elevel = WARNING_CLIENT_ONLY -> "WARNING"
      [] elevel = ERROR -> "ERROR"
      [] elevel = FATAL -> "FATAL"
      [] elevel = PANIC -> "PANIC"
      [] OTHER -> "???"

\* the characters '0' .. 'o', in ASCII order: PGUNSIXBIT(v) is SixBitChars[v + 1]
SixBitChars ==
    <<"0", "1", "2", "3", "4", "5", "6", "7", "8", "9", ":", ";", "<", "=",
      ">", "?", "@", "A", "B", "C", "D", "E", "F", "G", "H", "I", "J", "K",
      "L", "M", "N", "O", "P", "Q", "R", "S", "T", "U", "V", "W", "X", "Y",
      "Z", "[", "<backslash>", "]", "^", "_", "<backquote>", "a", "b", "c",
      "d", "e", "f", "g", "h", "i", "j", "k", "l", "m", "n", "o">>

\* the five characters of a packed SQLSTATE
unpack_sql_state(sqlerrcode) ==
    [i \in 1..5 |-> SixBitChars[((sqlerrcode \div (64 ^ (i - 1))) % 64) + 1]]

\* the copy with the tab put before the newline
RECURSIVE append_with_tabs_tab_first(_, _)
append_with_tabs_tab_first(buf, str) ==
    IF str = <<>>
    THEN buf
    ELSE LET ch == Head(str)
         IN  append_with_tabs_tab_first(
                 IF ch = "\n" THEN buf \o <<"\t", ch>> ELSE buf \o <<ch>>,
                 Tail(str))

\* the text with a tab inserted after each newline, appended to buf
RECURSIVE append_with_tabs(_, _)
append_with_tabs(buf, str) ==
    IF str = <<>>
    THEN buf
    ELSE LET ch == Head(str)
         IN  append_with_tabs(
                 IF ch = "\n" THEN buf \o <<ch, "\t">> ELSE buf \o <<ch>>,
                 Tail(str))

\* "formatted_timestamp [PID] ": the clock and the pid are read at each call
add_prefix(buf) == buf \o <<"<log_time>", " [<pid>] ">>

\* one "LABEL:  text\n" section
section(buf, label, text) ==
    append_with_tabs(add_prefix(buf) \o <<label>>, text) \o <<"\n">>

\* the DETAIL section, taken from detail where detail_log should win
detail_section_detail_first(buf, edata) ==
    IF edata.detail # NULL
    THEN section(buf, "DETAIL:  ", edata.detail)
    ELSE IF edata.detail_log # NULL
    THEN section(buf, "DETAIL:  ", edata.detail_log)
    ELSE buf

\* if (edata->detail_log) ... else if (edata->detail) ...
detail_section(buf, edata) ==
    IF edata.detail_log # NULL
    THEN section(buf, "DETAIL:  ", edata.detail_log)
    ELSE IF edata.detail # NULL
    THEN section(buf, "DETAIL:  ", edata.detail)
    ELSE buf

\* the CONTEXT section, emitted without a look at hide_ctx
context_section_ignoring_hide_ctx(buf, edata) ==
    IF edata.context # NULL
    THEN section(buf, "CONTEXT:  ", edata.context)
    ELSE buf

\* if (edata->context && !edata->hide_ctx) ...
context_section(buf, edata) ==
    IF edata.context # NULL /\ ~edata.hide_ctx
    THEN section(buf, "CONTEXT:  ", edata.context)
    ELSE buf

\* the LOCATION section, always in its short form
location_section_without_function(buf, edata) ==
    IF edata.filename # NULL
    THEN add_prefix(buf) \o <<"LOCATION:  ">> \o edata.filename
         \o <<":", ToString(edata.lineno), "\n">>
    ELSE buf

\* if (edata->funcname && edata->filename) ... else if (edata->filename) ...
location_section(buf, edata) ==
    IF edata.funcname # NULL /\ edata.filename # NULL
    THEN add_prefix(buf) \o <<"LOCATION:  ">> \o edata.funcname
         \o <<", ">> \o edata.filename
         \o <<":", ToString(edata.lineno), "\n">>
    ELSE IF edata.filename # NULL
    THEN add_prefix(buf) \o <<"LOCATION:  ">> \o edata.filename
         \o <<":", ToString(edata.lineno), "\n">>
    ELSE buf

\* the buffer that prepare_and_emit_intercept_log_message hands to the router
prepare_intercept_log_message(edata, query) ==
    LET b0 == add_prefix(<<>>) \o <<intercept_log_severity(edata.elevel), ":  ">>
        b1 == IF edata.sqlerrcode # 0
              THEN b0 \o unpack_sql_state(edata.sqlerrcode) \o <<":  ">>
              ELSE b0
        b2 == IF edata.message # NULL
              THEN append_with_tabs(b1, edata.message)
              ELSE append_with_tabs(b1, <<"missing error text">>)
        b3 == IF edata.cursorpos > 0
              THEN b2 \o <<" at character ", ToString(edata.cursorpos)>>
              ELSE IF edata.internalpos > 0
              THEN b2 \o <<" at character ", ToString(edata.internalpos)>>
              ELSE b2
        b4 == b3 \o <<"\n">>
        b5 == detail_section(b4, edata)
        b6 == IF edata.hint # NULL
              THEN section(b5, "HINT:  ", edata.hint)
              ELSE b5
        b7 == IF edata.internalquery # NULL
              THEN section(b6, "QUERY:  ", edata.internalquery)
              ELSE b6
        b8 == context_section(b7, edata)
        b9 == location_section(b8, edata)
        b10 == IF edata.backtrace # NULL
               THEN section(b9, "BACKTRACE:  ", edata.backtrace)
               ELSE b9
    IN  IF query # NULL
        THEN section(b10, "STATEMENT:  ", query)
        ELSE b10

(* ---- diagnostic records -------------------------------------------------- *)

\* an ErrorData with only a severity and a primary message
MkErrorData(elevel, message) ==
    [elevel |-> elevel, sqlerrcode |-> 0, message |-> message,
     detail |-> NULL, detail_log |-> NULL, hint |-> NULL,
     internalquery |-> NULL, context |-> NULL, hide_ctx |-> FALSE,
     funcname |-> NULL, filename |-> NULL, lineno |-> 0,
     backtrace |-> NULL, cursorpos |-> 0, internalpos |-> 0]

\* no event is being delivered
NoEvent == MkErrorData(0, NULL)

\* the record of ereport(ERROR, ...) in write_file; kind is "open" or "write"
WriteFileError(kind) ==
    [MkErrorData(ERROR,
                 IF kind = "open"
                 THEN <<"could not open intercept log file">>
                 ELSE <<"could not write intercept log file">>)
     EXCEPT !.funcname = <<"write_file">>,
            !.filename = <<"pg_intercept_server_logs.c">>,
            !.lineno = IF kind = "open" THEN 439 ELSE 450]

\* primary messages of the events the host raises
Messages == {<<"m">>}

\* statement texts the host may have in flight
QueryStrings == {NULL, <<"q">>}

\* the severities of the events the host raises while the pipeline is explored:
\* one below the default threshold, the two that share the label LOG, one
\* ordinary level, and the level of write_file's own reports
EventLevels == {DEBUG1, LOG, LOG_SERVER_ONLY, WARNING, ERROR}

\* the values log_level is asked to take while the pipeline is explored
WatchLevels == {DEBUG1, LOG, WARNING, ERROR, LOG_LEVEL_NONE}

\* the values log_min_messages takes while the pipeline is explored
MinLevels == {WARNING, DEBUG1}

\* the events the host raises
HostEvents == {MkErrorData(l, m) : l \in EventLevels, m \in Messages}

(* ---- state ---------------------------------------------------------------- *)

VARIABLES
    lib,                    \* "absent", "loaded" (after _PG_init), "unloaded"
    emit_log_hook,          \* the host's extension point
    original_emit_log_hook, \* the interceptor captured by _PG_init
    log_level,              \* pg_intercept_server_logs.log_level
    log_directory,          \* pg_intercept_server_logs.log_directory
    log_min_messages,       \* the host's minimum logging threshold
    debug_query_string,     \* the host's active statement text, or NULL
    in_intercept_log_hook,  \* the static reentrancy flag of intercept_log
    files,                  \* path -> content, NULL for a file that is not there
    open_fds,               \* descriptors this process holds open
    stderr_out,             \* what the current event wrote to stderr
    pc,                     \* where control is
    edata,                  \* the event being delivered to the hook
    buf,                    \* the StringInfo of the formatter, or NULL
    nevents,                \* top-level events raised so far
    trace,                  \* what was called for the current top-level event
    guc_result,             \* the setting attempt that just ended
    out_check,              \* the last is_log_level_output evaluation
    tab_check               \* the last append_with_tabs evaluation

vars ==
    <<lib, emit_log_hook, original_emit_log_hook, log_level, log_directory,
      log_min_messages, debug_query_string, in_intercept_log_hook, files,
      open_fds, stderr_out, pc, edata, buf, nevents, trace, guc_result,
      out_check, tab_check>>

\* the values of the extension point
intercept_log == <<"intercept_log">>
prior_hook == <<"prior_hook">>

NoGuc == [name |-> "", newval |-> <<>>, min |-> 0, ok |-> FALSE]
NoCheck == [elevel |-> 0, min |-> 0, result |-> FALSE]
NoTabs == [buf |-> <<>>, str |-> <<>>, out |-> <<>>]

\* "E2" for the report that write_file raised, "E1" for a host event
EventOf(e) == IF e.funcname = <<"write_file">> THEN "E2" ELSE "E1"

Entry(op, arg) == [op |-> op, ev |-> EventOf(edata), arg |-> arg]

\* snprintf(fullpath, "%s/%s.log", log_directory, severity label)
fullpath(dir, elevel) == dir \o <<"/", intercept_log_severity(elevel), ".log">>

AllPaths == {fullpath(d, l) : d \in DirValues \ {EmptyDir}, l \in Elevels}

\* static initialisers, before the library is loaded
Init ==
    /\ lib = "absent"
    /\ emit_log_hook \in {NULL, prior_hook}
    /\ original_emit_log_hook = NULL
    /\ log_level = LOG_LEVEL_NONE
    /\ log_directory = NULL
    /\ log_min_messages = WARNING
    /\ debug_query_string = NULL
    /\ in_intercept_log_hook = FALSE
    /\ files = [p \in AllPaths |-> NULL]
    /\ open_fds = 0
    /\ stderr_out = <<>>
    /\ pc = "idle"
    /\ edata = NoEvent
    /\ buf = NULL
    /\ nevents = 0
    /\ trace = <<>>
    /\ guc_result = NoGuc
    /\ out_check = NoCheck
    /\ tab_check = NoTabs

(* ---- load, unload, settings ---------------------------------------------- *)

\* an uninstall that empties the extension point
restored_hook_none(captured) == NULL

\* the interceptor _PG_fini puts back into the extension point
restored_hook(captured) == captured

_PG_init ==
    /\ pc = "idle"
    /\ lib = "absent"
    /\ lib' = "loaded"
    /\ log_level' = LOG_LEVEL_NONE
    /\ log_directory' = EmptyDir
    /\ original_emit_log_hook' = emit_log_hook
    /\ emit_log_hook' = intercept_log
    /\ UNCHANGED <<log_min_messages, debug_query_string,
                   in_intercept_log_hook, files, open_fds, stderr_out, pc,
                   edata, buf, nevents, trace, guc_result, out_check, tab_check>>

_PG_fini ==
    /\ pc = "idle"
    /\ lib = "loaded"
    /\ lib' = "unloaded"
    /\ emit_log_hook' = restored_hook(original_emit_log_hook)
    /\ UNCHANGED <<original_emit_log_hook, log_level, log_directory,
                   log_min_messages, debug_query_string,
                   in_intercept_log_hook, files, open_fds, stderr_out, pc,
                   edata, buf, nevents, trace, guc_result, out_check, tab_check>>

\* SET pg_intercept_server_logs.log_level = newval
SetLogLevel(newval) ==
    /\ pc = "idle"
    /\ lib = "loaded"
    /\ LET ok == check_intercept_log_level(newval, log_min_messages)
       IN  /\ log_level' = IF ok THEN newval ELSE log_level
           /\ guc_result' = [name |-> "log_level", newval |-> <<newval>>,
                             min |-> log_min_messages, ok |-> ok]
    /\ pc' = "set_done"
    /\ UNCHANGED <<lib, emit_log_hook, original_emit_log_hook, log_directory,
                   log_min_messages, debug_query_string,
                   in_intercept_log_hook, files, open_fds, stderr_out, edata,
                   buf, nevents, trace, out_check, tab_check>>

\* SET pg_intercept_server_logs.log_directory = newval
SetLogDirectory(newval) ==
    /\ pc = "idle"
    /\ lib = "loaded"
    /\ LET ok == check_intercept_log_directory(newval)
       IN  /\ log_directory' = IF ok THEN newval ELSE log_directory
           /\ guc_result' = [name |-> "log_directory", newval |-> newval,
                             min |-> log_min_messages, ok |-> ok]
    /\ pc' = "set_done"
    /\ UNCHANGED <<lib, emit_log_hook, original_emit_log_hook, log_level,
                   log_min_messages, debug_query_string,
                   in_intercept_log_hook, files, open_fds, stderr_out, edata,
                   buf, nevents, trace, out_check, tab_check>>

\* the host changes log_min_messages; this module has no hook on it
SetLogMinMessages(newval) ==
    /\ pc = "idle"
    /\ newval # log_min_messages
    /\ log_min_messages' = newval
    /\ UNCHANGED <<lib, emit_log_hook, original_emit_log_hook, log_level,
                   log_directory, debug_query_string, in_intercept_log_hook,
                   files, open_fds, stderr_out, pc, edata, buf, nevents,
                   trace, guc_result, out_check, tab_check>>

(* ---- intercept_log -------------------------------------------------------- *)

\* the host raises an event and hands it to whatever the extension point holds
RaiseEvent(ev, query) ==
    /\ pc = "idle"
    /\ nevents < MaxEvents
    /\ nevents' = nevents + 1
    /\ debug_query_string' = query
    /\ edata' = ev
    /\ IF emit_log_hook = intercept_log
       THEN /\ pc' = "call_original"
            /\ trace' = <<[op |-> "intercept_log", ev |-> "E1", arg |-> <<>>]>>
       ELSE IF emit_log_hook = prior_hook
       THEN /\ pc' = "return"
            /\ trace' = <<[op |-> "prior_hook", ev |-> "E1", arg |-> <<>>]>>
       ELSE /\ pc' = "return"
            /\ trace' = <<>>
    /\ UNCHANGED <<lib, emit_log_hook, original_emit_log_hook, log_level,
                   log_directory, log_min_messages, in_intercept_log_hook,
                   files, open_fds, stderr_out, buf, guc_result, out_check, tab_check>>

\* a prior interceptor that leaves out the re-entrant deliveries
calls_original_unless_reentrant(hook, flag) == hook # NULL /\ ~flag

\* if (original_emit_log_hook)
calls_original(hook, flag) == hook # NULL

\* if (original_emit_log_hook) original_emit_log_hook(edata);
CallOriginalHook ==
    /\ pc = "call_original"
    /\ trace' = IF calls_original(original_emit_log_hook,
                                  in_intercept_log_hook)
                THEN Append(trace, Entry("original_hook", <<>>))
                ELSE trace
    /\ pc' = "gate"
    /\ UNCHANGED <<lib, emit_log_hook, original_emit_log_hook, log_level,
                   log_directory, log_min_messages, debug_query_string,
                   in_intercept_log_hook, files, open_fds, stderr_out, edata,
                   buf, nevents, guc_result, out_check, tab_check>>

\* a gate without the reentrancy check
should_process_without_flag(flag, level, elevel) ==
    ~(level = LOG_LEVEL_NONE \/ elevel # level)

\* a gate that takes the watched severity for a threshold
should_process_at_or_above(flag, level, elevel) ==
    /\ ~flag
    /\ ~(level = LOG_LEVEL_NONE \/ elevel < level)

\* the two early returns of intercept_log, negated
should_process(flag, level, elevel) ==
    /\ ~flag
    /\ ~(level = LOG_LEVEL_NONE \/ elevel # level)

FilterGate ==
    /\ pc = "gate"
    /\ IF should_process(in_intercept_log_hook, log_level, edata.elevel)
       THEN /\ pc' = "set_flag"
            /\ trace' = Append(trace, Entry("pass", <<>>))
       ELSE /\ pc' = "return"
            /\ trace' = Append(trace, Entry("skip", <<>>))
    /\ UNCHANGED <<lib, emit_log_hook, original_emit_log_hook, log_level,
                   log_directory, log_min_messages, debug_query_string,
                   in_intercept_log_hook, files, open_fds, stderr_out, edata,
                   buf, nevents, guc_result, out_check, tab_check>>

\* in_intercept_log_hook = true;
SetFlag ==
    /\ pc = "set_flag"
    /\ in_intercept_log_hook' = TRUE
    /\ pc' = "prepare"
    /\ UNCHANGED <<lib, emit_log_hook, original_emit_log_hook, log_level,
                   log_directory, log_min_messages, debug_query_string,
                   files, open_fds, stderr_out, edata, buf, nevents, trace,
                   guc_result, out_check, tab_check>>

\* prepare_and_emit_intercept_log_message, up to the choice of destination
Prepare ==
    /\ pc = "prepare"
    /\ buf' = prepare_intercept_log_message(edata, debug_query_string)
    /\ trace' = Append(trace, Entry("format", <<>>))
    /\ pc' = "route"
    /\ UNCHANGED <<lib, emit_log_hook, original_emit_log_hook, log_level,
                   log_directory, log_min_messages, debug_query_string,
                   in_intercept_log_hook, files, open_fds, stderr_out, edata,
                   nevents, guc_result, out_check, tab_check>>

\* the test of the destination, inverted
to_console_inverted(dir) == dir # EmptyDir

\* strcmp(log_directory, "") == 0
to_console(dir) == dir = EmptyDir

\* the first n bytes of a buffer, for the count a write call returns
written(data, rc) == IF rc > 0 THEN SubSeq(data, 1, rc) ELSE <<>>

\* write_console: rc is what write(2) returns, and it is ignored
WriteConsole(rc) ==
    /\ pc = "route"
    /\ to_console(log_directory)
    /\ stderr_out' = stderr_out \o written(buf, rc)
    /\ trace' = Append(trace, Entry("write_console", <<ToString(rc)>>))
    /\ pc' = "pfree"
    /\ UNCHANGED <<lib, emit_log_hook, original_emit_log_hook, log_level,
                   log_directory, log_min_messages, debug_query_string,
                   in_intercept_log_hook, files, open_fds, edata, buf,
                   nevents, guc_result, out_check, tab_check>>

\* an open that truncates
opened_truncating(content) == <<>>

\* what open(O_WRONLY | O_CREAT | O_APPEND) leaves of the file's content
opened(content) == IF content = NULL THEN <<>> ELSE content

\* write_file, the open: ok says whether open() returns a descriptor
OpenFile(ok) ==
    /\ pc = "route"
    /\ ~to_console(log_directory)
    /\ LET path == fullpath(log_directory, edata.elevel)
       IN  IF ok
           THEN /\ files' = [files EXCEPT ![path] = opened(@)]
                /\ open_fds' = open_fds + 1
                /\ trace' = Append(trace, Entry("open", path))
                /\ pc' = "write"
           ELSE /\ trace' = Append(Append(trace, Entry("open", path)),
                                   Entry("ereport", <<"open">>))
                /\ pc' = "ereport"
                /\ UNCHANGED <<files, open_fds>>
    /\ UNCHANGED <<lib, emit_log_hook, original_emit_log_hook, log_level,
                   log_directory, log_min_messages, debug_query_string,
                   in_intercept_log_hook, stderr_out, edata, buf, nevents,
                   guc_result, out_check, tab_check>>

\* a test that takes only a negative count for a failure
write_failed_only_if_negative(rc, len) == rc < 0

\* write(fd, line, len) != len
write_failed(rc, len) == rc # len

\* the content after write() put rc bytes of data through an O_APPEND descriptor
appended(content, data, rc) == content \o written(data, rc)

\* write_file, the write: rc is what write(2) returns
WriteFileData(rc) ==
    /\ pc = "write"
    /\ LET path == fullpath(log_directory, edata.elevel)
       IN  /\ files' = [files EXCEPT ![path] = appended(@, buf, rc)]
           /\ IF write_failed(rc, Len(buf))
              THEN /\ trace' = Append(Append(trace,
                                        Entry("write", <<ToString(rc)>>)),
                                      Entry("ereport", <<"write">>))
                   /\ pc' = "ereport"
              ELSE /\ trace' = Append(trace, Entry("write", <<ToString(rc)>>))
                   /\ pc' = "pfree"
    /\ UNCHANGED <<lib, emit_log_hook, original_emit_log_hook, log_level,
                   log_directory, log_min_messages, debug_query_string,
                   in_intercept_log_hook, open_fds, stderr_out, edata, buf,
                   nevents, guc_result, out_check, tab_check>>

\* ereport(ERROR) does not return: control leaves write_file,
\* prepare_and_emit_intercept_log_message and intercept_log for the host's
\* error handler, which reports the error through emit_log_hook.  The jump
\* passes over pfree(buf.data) and over in_intercept_log_hook = false; the
\* buffer goes with its memory context, the static flag stays as it is.
EmitErrorReport ==
    /\ pc = "ereport"
    /\ buf' = NULL
    /\ edata' = WriteFileError(trace[Len(trace)].arg[1])
    /\ trace' = Append(trace, [op |-> "intercept_log", ev |-> "E2",
                               arg |-> <<>>])
    /\ pc' = "call_original"
    /\ UNCHANGED <<lib, emit_log_hook, original_emit_log_hook, log_level,
                   log_directory, log_min_messages, debug_query_string,
                   in_intercept_log_hook, files, open_fds, stderr_out,
                   nevents, guc_result, out_check, tab_check>>

\* pfree(buf.data), and the return of prepare_and_emit_intercept_log_message
Pfree ==
    /\ pc = "pfree"
    /\ buf' = NULL
    /\ pc' = "clear_flag"
    /\ UNCHANGED <<lib, emit_log_hook, original_emit_log_hook, log_level,
                   log_directory, log_min_messages, debug_query_string,
                   in_intercept_log_hook, files, open_fds, stderr_out, edata,
                   nevents, trace, guc_result, out_check, tab_check>>

\* in_intercept_log_hook = false;
ClearFlag ==
    /\ pc = "clear_flag"
    /\ in_intercept_log_hook' = FALSE
    /\ pc' = "return"
    /\ UNCHANGED <<lib, emit_log_hook, original_emit_log_hook, log_level,
                   log_directory, log_min_messages, debug_query_string,
                   files, open_fds, stderr_out, edata, buf, nevents, trace,
                   guc_result, out_check, tab_check>>

\* the host goes on after the event, or after the SET command: the statement
\* in flight ends, and what the event left on stderr has been consumed
HostResume ==
    /\ pc \in {"return", "set_done"}
    /\ pc' = "idle"
    /\ edata' = NoEvent
    /\ trace' = <<>>
    /\ stderr_out' = <<>>
    /\ guc_result' = NoGuc
    /\ debug_query_string' = NULL
    /\ UNCHANGED <<lib, emit_log_hook, original_emit_log_hook, log_level,
                   log_directory, log_min_messages, in_intercept_log_hook,
                   files, open_fds, buf, nevents, out_check, tab_check>>

\* the counts write(2) can return for a buffer
WriteResults(data) == {-1, 0, Len(data) \div 2, Len(data)}

Next ==
    \/ _PG_init
    \/ _PG_fini
    \/ \E v \in WatchLevels : SetLogLevel(v)
    \/ \E d \in DirValues : SetLogDirectory(d)
    \/ \E m \in MinLevels : SetLogMinMessages(m)
    \/ \E ev \in HostEvents, q \in QueryStrings : RaiseEvent(ev, q)
    \/ CallOriginalHook
    \/ FilterGate
    \/ SetFlag
    \/ Prepare
    \/ \E rc \in WriteResults(buf) : WriteConsole(rc)
    \/ \E ok \in BOOLEAN : OpenFile(ok)
    \/ \E rc \in WriteResults(buf) : WriteFileData(rc)
    \/ EmitErrorReport
    \/ Pfree
    \/ ClearFlag
    \/ HostResume

Spec == Init /\ [][Next]_vars

(* ---- the settings alone, over every value they can be asked to take ------ *)

NextConfig ==
    \/ _PG_init
    \/ _PG_fini
    \/ \E v \in log_level_options : SetLogLevel(v)
    \/ \E d \in DirValues : SetLogDirectory(d)
    \/ \E m \in server_message_level_options : SetLogMinMessages(m)
    \/ HostResume

SpecConfig == Init /\ [][NextConfig]_vars

(* ---- is_log_level_output alone, over every severity and threshold -------- *)

EvalOutput(elevel, min) ==
    /\ out_check' = [elevel |-> elevel, min |-> min,
                     result |-> is_log_level_output(elevel, min)]
    /\ UNCHANGED <<lib, emit_log_hook, original_emit_log_hook, log_level,
                   log_directory, log_min_messages, debug_query_string,
                   in_intercept_log_hook, files, open_fds, stderr_out, pc,
                   edata, buf, nevents, trace, guc_result, tab_check>>

NextOutput ==
    \E e \in Elevels, m \in server_message_level_options : EvalOutput(e, m)

SpecOutput == Init /\ [][NextOutput]_vars


(* ---- the formatter alone, over records with every field set or not ------- *)

\* a field that is absent or holds the given text
Opt(text) == {NULL, text}

\* the records handed to the formatter: each optional field absent or present,
\* with texts that tell the fields apart; 2600 is MAKE_SQLSTATE('X','X','0','0','0')
FormatRecords ==
    {[elevel |-> ERROR, sqlerrcode |-> c, message |-> m, detail |-> d,
      detail_log |-> dl, hint |-> h, internalquery |-> iq, context |-> cx,
      hide_ctx |-> hc, funcname |-> fn, filename |-> fl, lineno |-> 42,
      backtrace |-> bt, cursorpos |-> cp, internalpos |-> ip] :
        c \in {0, 2600},
        m \in Opt(<<"m1", "\n", "m2">>),
        d \in Opt(<<"detail">>),
        dl \in Opt(<<"detail_log">>),
        h \in Opt(<<"hint">>),
        iq \in Opt(<<"internal query">>),
        cx \in Opt(<<"c1", "\n", "c2">>),
        hc \in BOOLEAN,
        fn \in Opt(<<"func">>),
        fl \in Opt(<<"file.c">>),
        bt \in Opt(<<"bt1", "\n", "bt2">>),
        cp \in {0, 5},
        ip \in {0, 9}}

\* intercept_log has let a record through and set its flag
InitFormat ==
    /\ lib = "loaded"
    /\ emit_log_hook = intercept_log
    /\ original_emit_log_hook = NULL
    /\ log_level = ERROR
    /\ log_directory = EmptyDir
    /\ log_min_messages = WARNING
    /\ debug_query_string \in QueryStrings
    /\ in_intercept_log_hook = TRUE
    /\ files = [p \in AllPaths |-> NULL]
    /\ open_fds = 0
    /\ stderr_out = <<>>
    /\ pc = "prepare"
    /\ edata \in FormatRecords
    /\ buf = NULL
    /\ nevents = 1
    /\ trace = <<[op |-> "intercept_log", ev |-> "E1", arg |-> <<>>],
                 [op |-> "pass", ev |-> "E1", arg |-> <<>>]>>
    /\ guc_result = NoGuc
    /\ out_check = NoCheck
    /\ tab_check = NoTabs

NextFormat == Prepare

SpecFormat == InitFormat /\ [][NextFormat]_vars

(* ---- append_with_tabs alone, over every short text ------------------------ *)

\* the characters of the texts: an ordinary one, the newline, the tab
TextChars == {"a", "\n", "\t"}

\* every text of at most n characters
Texts(n) == UNION {[1..k -> TextChars] : k \in 0..n}

\* what the buffer holds before the call
Buffers == {<<>>, <<"DETAIL:  ">>, <<"x", "\n">>}

AppendWithTabs(b, str) ==
    /\ tab_check' = [buf |-> b, str |-> str, out |-> append_with_tabs(b, str)]
    /\ UNCHANGED <<lib, emit_log_hook, original_emit_log_hook, log_level,
                   log_directory, log_min_messages, debug_query_string,
                   in_intercept_log_hook, files, open_fds, stderr_out, pc,
                   edata, buf, nevents, trace, guc_result, out_check>>

NextTabs == \E b \in Buffers, str \in Texts(MaxTextLen) : AppendWithTabs(b, str)

SpecTabs == Init /\ [][NextTabs]_vars

(* ---- reading the trace of the current top-level event -------------------- *)

Positions(op) == {i \in DOMAIN trace : trace[i].op = op}
Count(op) == Cardinality(Positions(op))
Has(op) == Positions(op) # {}
HasFor(op, ev) == \E i \in Positions(op) : trace[i].ev = ev

IsPrefix(s, t) == Len(s) <= Len(t) /\ SubSeq(t, 1, Len(s)) = s
EndsWith(t, s) ==
    Len(s) <= Len(t) /\ SubSeq(t, Len(t) - Len(s) + 1, Len(t)) = s

\* the handling of the current top-level event is over
EventEnded == pc = "return" /\ Has("intercept_log")

(* ---- C1 --------------------------------------------------------------------
   C1: whenever intercept_log's handling of a top-level event has ended, by
   normal return or by the error exit of write_file, the reentrancy flag
   in_intercept_log_hook is false. *)
C1_FlagClearWhenHandlingEnded ==
    (EventEnded \/ pc = "idle") => ~in_intercept_log_hook

(* ---- C2 --------------------------------------------------------------------
   C2: the error report E2 that a failing open or write raises while E1 is
   processed is never formatted or written by this module (the gate skips it),
   also when E2's severity is the watched one; one failing event causes at
   most two invocations of the hook. *)
C2_ErrorReportSuppressed ==
    /\ \A i \in DOMAIN trace :
          trace[i].ev = "E2" =>
              trace[i].op \in {"intercept_log", "original_hook", "skip"}
    /\ pc \in {"set_flag", "prepare", "route", "write", "pfree", "clear_flag",
               "ereport"} => EventOf(edata) = "E1"
    /\ Count("intercept_log") <= 2
    /\ Count("ereport") <= 1

\* E2 has the watched severity, and the gate has skipped it
C2_Witness ==
    /\ EventEnded
    /\ EventOf(edata) = "E2"
    /\ log_level = edata.elevel
    /\ trace[Len(trace)] = [op |-> "skip", ev |-> "E2", arg |-> <<>>]

(* ---- C3 --------------------------------------------------------------------
   C3: a destination failure is fatal only for the event that triggered it:
   every later top-level event whose severity is the watched one (not
   disabled) is still let through the gate to be formatted and routed. *)
C3_LaterEventsStillProcessed ==
    (/\ pc = "gate"
     /\ EventOf(edata) = "E1"
     /\ log_level # LOG_LEVEL_NONE
     /\ edata.elevel = log_level)
        => should_process(in_intercept_log_hook, log_level, edata.elevel)

(* ---- C4 --------------------------------------------------------------------
   C4: for every event delivered to intercept_log, a prior interceptor
   captured at install is invoked exactly once with that event, before the
   reentrancy check, the severity filter, the formatting and the write, and
   whatever the reentrancy flag, the watched severity and the event's
   severity are. *)
C4_PriorInterceptorFirst ==
    /\ \A i \in Positions("intercept_log") :
          IF original_emit_log_hook # NULL
          THEN \/ i = Len(trace) /\ pc = "call_original"
               \/ /\ i < Len(trace)
                  /\ trace[i + 1] = [op |-> "original_hook",
                                     ev |-> trace[i].ev, arg |-> <<>>]
          ELSE i = Len(trace) \/ trace[i + 1].op # "original_hook"
    /\ \A j \in Positions("original_hook") :
          j > 1 /\ trace[j - 1].op = "intercept_log"

\* the prior interceptor saw E2 although the flag was set, after it had seen
\* E1, whose processing failed
C4_Witness ==
    /\ EventEnded
    /\ in_intercept_log_hook
    /\ HasFor("original_hook", "E1")
    /\ HasFor("original_hook", "E2")
    /\ \E i \in Positions("original_hook") :
          \A j \in Positions("pass") \cup Positions("format")
                    \cup Positions("open") : i < j

(* ---- C5 --------------------------------------------------------------------
   C5: an event is formatted and routed if and only if the reentrancy flag is
   clear, the watched severity is not the disabled sentinel and the event's
   severity equals the watched one exactly (a higher severity is not
   processed); the decision changes no state. *)
C5_FilterGateExactMatch ==
    [][pc = "gate" =>
          /\ (pc' = "set_flag") <=>
                 (/\ ~in_intercept_log_hook
                  /\ log_level # LOG_LEVEL_NONE
                  /\ edata.elevel = log_level)
          /\ pc' \in {"set_flag", "return"}
          /\ UNCHANGED <<lib, emit_log_hook, original_emit_log_hook,
                         log_level, log_directory, log_min_messages,
                         debug_query_string, in_intercept_log_hook, files,
                         open_fds, stderr_out, edata, buf, nevents>>]_vars

\* an event above the watched severity was skipped with the flag clear
C5_Witness ==
    /\ EventEnded
    /\ ~in_intercept_log_hook
    /\ log_level = WARNING
    /\ edata.elevel = ERROR
    /\ trace[Len(trace)].op = "skip"

(* ---- C6 --------------------------------------------------------------------
   C6: for every event that passes the filter while the destination directory
   is non-empty, either the whole formatted block is appended to the file by
   one write call, or an error is reported through the host's error channel
   (open failure, or a write count different from the block length); after a
   failure there is no second open or write for that event. *)
C6_WholeBlockOrError ==
    /\ Count("open") <= 1
    /\ Count("write") <= 1
    /\ (pc = "pfree" /\ ~to_console(log_directory)) =>
          /\ Count("open") = 1 /\ Count("write") = 1 /\ Count("ereport") = 0
          /\ trace[Len(trace)].arg = <<ToString(Len(buf))>>
          /\ EndsWith(files[fullpath(log_directory, edata.elevel)], buf)
    /\ pc = "ereport" =>
          /\ Count("ereport") = 1
          /\ trace[Len(trace)].op = "ereport"
          /\ \/ /\ trace[Len(trace)].arg = <<"open">>
                /\ Count("open") = 1 /\ Count("write") = 0
             \/ /\ trace[Len(trace)].arg = <<"write">>
                /\ Count("open") = 1 /\ Count("write") = 1
                /\ trace[Len(trace) - 1].arg # <<ToString(Len(buf))>>
    /\ (EventEnded /\ HasFor("format", "E1") /\ ~to_console(log_directory)) =>
          /\ Count("open") = 1
          /\ Count("write_console") = 0
          /\ \/ Count("ereport") = 0 /\ Count("write") = 1
             \/ Count("ereport") = 1 /\ HasFor("intercept_log", "E2")

\* a short write was reported, and the event ended with no second attempt
C6_Witness ==
    /\ EventEnded
    /\ \E i \in Positions("write") :
          /\ i < Len(trace)
          /\ trace[i].arg \notin {<<"-1">>, <<"0">>}
          /\ trace[i + 1] = [op |-> "ereport", ev |-> "E1", arg |-> <<"write">>]
    /\ HasFor("skip", "E2")

(* ---- C7 --------------------------------------------------------------------
   C7: for every event that passes the filter, the block goes to exactly one
   destination, chosen by the destination directory current when the event is
   processed: to the console and to no file when the directory is empty,
   otherwise to <directory>/<SeverityLabel>.log of the event's severity and
   not to the console; a console write failure reports no error. *)
C7_OneDestination ==
    /\ [](Count("write_console") + Count("open") <= 1)
    /\ []((EventEnded /\ HasFor("format", "E1")) =>
              Count("write_console") + Count("open") = 1)
    /\ [](Has("write_console") => Count("ereport") = 0)
    /\ [][pc = "route" =>
             IF log_directory = <<>>
             THEN /\ files' = files
                  /\ open_fds' = open_fds
                  /\ pc' = "pfree"
                  /\ \E n \in 0..Len(buf) :
                        stderr_out' = stderr_out \o SubSeq(buf, 1, n)
                  /\ trace'[Len(trace')].op = "write_console"
             ELSE /\ stderr_out' = stderr_out
                  /\ trace'[Len(trace) + 1] =
                        [op |-> "open", ev |-> "E1",
                         arg |-> log_directory
                                 \o <<"/", intercept_log_severity(edata.elevel),
                                      ".log">>]
                  /\ \A p \in AllPaths :
                        files'[p] # files[p] => p = trace'[Len(trace) + 1].arg
         ]_vars
    /\ [][pc # "route" =>
             /\ (stderr_out' = stderr_out \/ (pc = "return" /\ stderr_out' = <<>>))
             /\ (files' # files => pc = "write")]_vars

\* an event went to the console, where the write failed and nothing was
\* reported, after an earlier event of the same run had gone to a file
C7_Witness ==
    /\ EventEnded
    /\ nevents = 2
    /\ trace[Len(trace)] =
          [op |-> "write_console", ev |-> "E1", arg |-> <<"-1">>]
    /\ stderr_out = <<>>
    /\ ~in_intercept_log_hook
    /\ open_fds = 1
    /\ \E p \in AllPaths : files[p] # NULL /\ Len(files[p]) > 0

(* ---- C8 --------------------------------------------------------------------
   C8: severity files are append-only: the content a file had before an event
   is a prefix of its content after it, each successfully written matching
   event strictly increases the length of the file of its severity label, and
   the files of all other labels are unchanged by that event. *)
C8_AppendOnly ==
    [][/\ \A p \in AllPaths :
             files[p] # NULL =>
                 files'[p] # NULL /\ IsPrefix(files[p], files'[p])
       /\ \A p \in AllPaths :
             files'[p] # files[p] =>
                 /\ pc \in {"route", "write"}
                 /\ p = fullpath(log_directory, edata.elevel)
       /\ (pc = "write" /\ pc' = "pfree") =>
             LET p == fullpath(log_directory, edata.elevel)
             IN  Len(files'[p]) > Len(files[p])
      ]_vars

\* a second block was appended below the first
C8_Witness ==
    /\ EventEnded
    /\ nevents = 2
    /\ Count("ereport") = 0
    /\ Has("write")
    /\ LET p == fullpath(log_directory, edata.elevel)
           b == prepare_intercept_log_message(edata, debug_query_string)
       IN  /\ Len(files[p]) = 2 * Len(b)
           /\ files[p] = b \o b

(* ---- C9 --------------------------------------------------------------------
   C9: an attempt to set the watched severity to V is accepted if and only if
   V is the disabled sentinel or V is observable (is_log_level_output) under
   the host's minimum logging threshold at set time; a rejected attempt
   leaves the watched severity at its prior value. *)
C9_SetLogLevelAccepted ==
    /\ [](guc_result.name = "log_level" =>
            LET V == guc_result.newval[1]
            IN  guc_result.ok <=>
                    (\/ V = LOG_LEVEL_NONE
                     \/ is_log_level_output(V, guc_result.min)))
    /\ [][(pc = "idle" /\ guc_result'.name = "log_level") =>
             /\ guc_result'.min = log_min_messages
             /\ log_min_messages' = log_min_messages
             /\ IF guc_result'.ok
                THEN log_level' = guc_result'.newval[1]
                ELSE log_level' = log_level]_vars

\* debug1 is refused while the host's minimum is warning, and the watched
\* severity stays what it was
C9_Witness ==
    /\ guc_result.name = "log_level"
    /\ guc_result.newval = <<DEBUG1>>
    /\ guc_result.min = WARNING
    /\ ~guc_result.ok
    /\ log_level = ERROR

(* ---- C10 -------------------------------------------------------------------
   C10 as stated: for all severities S and the threshold M equal to the
   log-class level, is_log_level_output(S, M) is true if and only if S is at
   or above the fatal tier. *)
C10_Original ==
    out_check.min = LOG =>
        (out_check.result <=> out_check.elevel >= FATAL)

(* C10 as amended: for all severities S that are not log-class (neither LOG
   nor LOG_SERVER_ONLY) and the threshold M equal to the log-class level,
   is_log_level_output(S, M) is true if and only if S is at or above the
   fatal tier, whatever S's numeric rank otherwise. *)
C10_Amended ==
    (out_check.min = LOG /\ out_check.elevel \notin {LOG, LOG_SERVER_ONLY}) =>
        (out_check.result <=> out_check.elevel >= FATAL)

\* warning ranks above the log-class level and is not observable under it
C10_Witness ==
    out_check = [elevel |-> WARNING, min |-> LOG, result |-> FALSE]

(* ---- C11 -------------------------------------------------------------------
   C11: for all thresholds M and every log-class event severity S (LOG or
   LOG_SERVER_ONLY), is_log_level_output(S, M) is true if and only if M is
   the log-class level or M is at or below the error tier; it is false for
   M = fatal and M = panic. *)
C11_LogClassEvent ==
    out_check.elevel \in {LOG, LOG_SERVER_ONLY} =>
        /\ out_check.result <=>
               out_check.min \in {LOG, DEBUG5, DEBUG4, DEBUG3, DEBUG2, DEBUG1,
                                  INFO, NOTICE, WARNING, ERROR}
        /\ out_check.min \in {FATAL, PANIC} => ~out_check.result

\* a log-only event under the threshold error, which ranks above it
C11_Witness ==
    out_check = [elevel |-> LOG_SERVER_ONLY, min |-> ERROR, result |-> TRUE]

(* ---- C12 -------------------------------------------------------------------
   C12: an event of severity WARNING_CLIENT_ONLY is never observable:
   is_log_level_output(WARNING_CLIENT_ONLY, M) is false for every threshold
   M, also for the thresholds numerically below it. *)
C12_ClientOnlyNeverOutput ==
    out_check.elevel = WARNING_CLIENT_ONLY => ~out_check.result

\* the lowest threshold does not let it through either
C12_Witness ==
    out_check = [elevel |-> WARNING_CLIENT_ONLY, min |-> DEBUG5,
                 result |-> FALSE]

(* ---- C13 -------------------------------------------------------------------
   C13: install followed by uninstall restores the extension point: after
   _PG_fini the host's interceptor slot holds exactly the interceptor
   (possibly none) that was registered at the moment _PG_init captured it,
   not unconditionally "no interceptor", and this module's handler is no
   longer the registered one. *)
C13_UninstallRestores ==
    /\ [][(lib = "absent" /\ lib' = "loaded") =>
             /\ original_emit_log_hook' = emit_log_hook
             /\ emit_log_hook' = intercept_log]_vars
    /\ [][lib = lib' => original_emit_log_hook' = original_emit_log_hook]_vars
    /\ [][(lib = "loaded" /\ lib' = "unloaded") =>
             /\ emit_log_hook' = original_emit_log_hook
             /\ original_emit_log_hook' = original_emit_log_hook]_vars
    /\ [](lib = "unloaded" =>
             /\ emit_log_hook = original_emit_log_hook
             /\ emit_log_hook # intercept_log)

\* the prior interceptor is back in the slot, and the host has handed it an
\* event after the uninstall
C13_Witness ==
    /\ lib = "unloaded"
    /\ emit_log_hook = prior_hook
    /\ pc = "return"
    /\ trace = <<[op |-> "prior_hook", ev |-> "E1", arg |-> <<>>]>>

(* ---- reading a formatted block ---------------------------------------------- *)

\* the formatter has built the block of the current record
Formatted == pc = "route" /\ buf # NULL

\* where a token stands in a block
At(b, tok) == {i \in DOMAIN b : b[i] = tok}

\* the tokens s stand right after position i of b
Follows(b, i, s) == i + Len(s) <= Len(b) /\ SubSeq(b, i + 1, i + Len(s)) = s

FileLine(e) == e.filename \o <<":", ToString(e.lineno), "\n">>

(* ---- C14 -------------------------------------------------------------------
   C14 as stated: the location section of a formatted block is
   "function, file:line" whenever the record's function name is present,
   otherwise "file:line" whenever the file name is present, and is omitted
   only when neither the function name nor the file name is present. *)
C14_Original ==
    Formatted =>
        LET L == At(buf, "LOCATION:  ")
        IN  /\ IF edata.funcname # NULL
               THEN \E i \in L : Follows(buf, i, edata.funcname \o <<", ">>)
               ELSE IF edata.filename # NULL
               THEN \E i \in L : Follows(buf, i, FileLine(edata))
               ELSE L = {}
            /\ L = {} => (edata.funcname = NULL /\ edata.filename = NULL)

(* C14 as amended: the location section is "function, file:line" whenever
   the function name and the file name are both present, otherwise
   "file:line" whenever the file name is present, and is omitted exactly when
   the file name is absent (with or without a function name). *)
C14_Amended ==
    Formatted =>
        LET L == At(buf, "LOCATION:  ")
        IN  /\ Cardinality(L) <= 1
            /\ IF edata.funcname # NULL /\ edata.filename # NULL
               THEN \E i \in L :
                       Follows(buf, i,
                               edata.funcname \o <<", ">> \o FileLine(edata))
               ELSE IF edata.filename # NULL
               THEN \E i \in L : Follows(buf, i, FileLine(edata))
               ELSE L = {}

\* a record with a function name and no file name gets no location section
C14_Witness ==
    /\ Formatted
    /\ edata.funcname # NULL
    /\ edata.filename = NULL
    /\ At(buf, "LOCATION:  ") = {}

(* ---- reading the sections of a block ----------------------------------------- *)

\* the labels of the sections that follow the message, in the order claimed
SectionLabels ==
    <<"DETAIL:  ", "HINT:  ", "QUERY:  ", "CONTEXT:  ", "LOCATION:  ",
      "BACKTRACE:  ", "STATEMENT:  ">>

\* the line terminators of a block: the newlines that no tab follows
Terminators(b) ==
    {i \in DOMAIN b : b[i] = "\n" /\ (i = Len(b) \/ b[i + 1] # "\t")}

\* the block b has the message section first and then exactly the sections
\* whose flag is set in want, in the order of SectionLabels, each with its
\* own prefix and closed by one terminator
WellSectioned(b, e, want) ==
    /\ Len(b) >= 5
    /\ SubSeq(b, 1, 4) =
          <<"<log_time>", " [<pid>] ", intercept_log_severity(e.elevel), ":  ">>
    /\ \A k \in DOMAIN SectionLabels :
          Cardinality(At(b, SectionLabels[k])) = IF want[k] THEN 1 ELSE 0
    /\ \A k, l \in DOMAIN SectionLabels :
          (k < l /\ want[k] /\ want[l]) =>
              \A i \in At(b, SectionLabels[k]) :
                  \A j \in At(b, SectionLabels[l]) : i < j
    /\ \A k \in DOMAIN SectionLabels :
          \A i \in At(b, SectionLabels[k]) :
              /\ i > 7
              /\ SubSeq(b, i - 3, i - 1) = <<"\n", "<log_time>", " [<pid>] ">>
              /\ i - 3 \in Terminators(b)
    /\ Len(b) \in Terminators(b)
    /\ Cardinality(Terminators(b)) =
          1 + Cardinality({k \in DOMAIN SectionLabels : want[k]})
    /\ Cardinality(At(b, "<log_time>")) = Cardinality(Terminators(b))

(* ---- C15 -------------------------------------------------------------------
   C15 as stated: the sections of a block come in the fixed order message,
   detail, hint, internal query, context, location, backtrace, active
   statement; the message section is always there; each other section is
   there exactly when its field is present (context only when not
   suppressed, statement whenever the host reports an active statement; the
   location's fields being the function name and the file name, as in C14);
   each section has its own prefix and ends with one terminator. *)
C15_Original ==
    Formatted =>
        WellSectioned(buf, edata,
            <<edata.detail_log # NULL \/ edata.detail # NULL,
              edata.hint # NULL,
              edata.internalquery # NULL,
              edata.context # NULL /\ ~edata.hide_ctx,
              edata.funcname # NULL \/ edata.filename # NULL,
              edata.backtrace # NULL,
              debug_query_string # NULL>>)

(* C15 as amended: the same, with the location section there exactly when
   the file name is present. *)
C15_Amended ==
    Formatted =>
        WellSectioned(buf, edata,
            <<edata.detail_log # NULL \/ edata.detail # NULL,
              edata.hint # NULL,
              edata.internalquery # NULL,
              edata.context # NULL /\ ~edata.hide_ctx,
              edata.filename # NULL,
              edata.backtrace # NULL,
              debug_query_string # NULL>>)

\* a block whose message is the placeholder and whose context is suppressed,
\* with the seven other sections in it, the statement among them
C15_Witness ==
    /\ Formatted
    /\ edata.message = NULL
    /\ edata.context # NULL
    /\ edata.hide_ctx
    /\ At(buf, "CONTEXT:  ") = {}
    /\ \A k \in DOMAIN SectionLabels :
          k # 4 => At(buf, SectionLabels[k]) # {}

(* ---- C16 -------------------------------------------------------------------
   C16: append_with_tabs copies a text so that every newline of the input is
   immediately followed by one horizontal tab in the output and nothing else
   changes: removing the tab after each newline of the output gives back the
   input exactly, and the output length is the input length plus its number
   of newlines. *)

\* a text without the character that follows each of its newlines
RECURSIVE WithoutCharAfterNewline(_)
WithoutCharAfterNewline(t) ==
    IF t = <<>>
    THEN <<>>
    ELSE IF Head(t) = "\n" /\ Len(t) >= 2
    THEN <<"\n">> \o WithoutCharAfterNewline(Tail(Tail(t)))
    ELSE <<Head(t)>> \o WithoutCharAfterNewline(Tail(t))

\* what the call added to the buffer
Added(c) == SubSeq(c.out, Len(c.buf) + 1, Len(c.out))

\* the walk over the copy, in step with the input: i is the place in the
\* input, j the place in the copy; each newline takes two places of the copy
RECURSIVE CopiedWithTabs(_, _, _, _)
CopiedWithTabs(str, o, i, j) ==
    IF i > Len(str)
    THEN j = Len(o) + 1
    ELSE /\ j <= Len(o)
         /\ o[j] = str[i]
         /\ IF str[i] = "\n"
            THEN /\ j + 1 <= Len(o)
                 /\ o[j + 1] = "\t"
                 /\ CopiedWithTabs(str, o, i + 1, j + 2)
            ELSE CopiedWithTabs(str, o, i + 1, j + 1)

C16_NewlineTabRoundTrip ==
    LET c == tab_check
        o == Added(c)
    IN  /\ Len(c.out) >= Len(c.buf)
        /\ SubSeq(c.out, 1, Len(c.buf)) = c.buf
        /\ CopiedWithTabs(c.str, o, 1, 1)
        /\ WithoutCharAfterNewline(o) = c.str
        /\ Len(o) = Len(c.str) + Cardinality(At(c.str, "\n"))

\* a text with two newlines in a row, a tab of its own and a newline at its end
C16_Witness ==
    /\ tab_check.str = <<"\n", "\n", "\t", "\n">>
    /\ tab_check.buf = <<"x", "\n">>
    /\ tab_check.out =
          <<"x", "\n", "\n", "\t", "\n", "\t", "\t", "\n", "\t">>

(* ---- C17 -------------------------------------------------------------------
   C17: a formatted block has at most one DETAIL section: when the record has
   both detail-log text and detail text, the section carries the detail-log
   text and the detail text appears nowhere in the block; when only one of
   them is present, that one is emitted. *)
C17_OneDetailSection ==
    Formatted =>
        LET D == At(buf, "DETAIL:  ")
        IN  /\ Cardinality(D) <= 1
            /\ IF edata.detail_log # NULL
               THEN /\ \E i \in D :
                          Follows(buf, i, edata.detail_log \o <<"\n">>)
                    /\ edata.detail # NULL =>
                          \A k \in DOMAIN edata.detail :
                              At(buf, edata.detail[k]) = {}
               ELSE IF edata.detail # NULL
               THEN \E i \in D : Follows(buf, i, edata.detail \o <<"\n">>)
               ELSE D = {}

\* both texts are present and the block carries the detail-log text only
C17_Witness ==
    /\ Formatted
    /\ edata.detail # NULL
    /\ edata.detail_log # NULL
    /\ At(buf, "detail_log") # {}
    /\ At(buf, "detail") = {}

(* ---- C18 -------------------------------------------------------------------
   C18: in every reachable state, after any sequence of changes of the
   watched severity and of the host's minimum logging threshold, the watched
   severity is either the disabled sentinel or observable
   (is_log_level_output) under the host's current minimum threshold. *)
C18_WatchedSeverityObservable ==
    \/ log_level = LOG_LEVEL_NONE
    \/ is_log_level_output(log_level, log_min_messages)

(* ---- C19 -------------------------------------------------------------------
   C19: the module holds no open file descriptor between events: every
   descriptor that write_file opens for an event is closed by the time the
   handling of that event ends, on the successful write path and on the
   short-write error path. *)
C19_NoDescriptorHeldBetweenEvents ==
    (EventEnded \/ pc = "idle") => open_fds = 0

====
